---- MODULE Spec2Model ----
(***************************************************************************)
(* A model of src/wright.py: the Wright System count for single            *)
(* transferable vote elections (classes Candidate, Vote, WrightSystem and   *)
(* the script at the end of the file).                                      *)
(*                                                                          *)
(* Numbers.  total_value, Vote.value, total_votes and quota are Python      *)
(* floats.  They are modelled as exact rationals <<numerator, denominator>> *)
(* in lowest terms with a positive denominator; rounding error of the       *)
(* floating point operations is not modelled.                               *)
(*                                                                          *)
(* Objects.  A Candidate object is identified by its name (names are unique *)
(* keys of WrightSystem.candidates and candidates are only created by the   *)
(* constructor), a Vote object by its ballot id.  Candidate objects live on *)
(* after "del self.candidates[name]" as long as a preference list refers to *)
(* them, so total_value and cand_votes are kept for every name.             *)
(*                                                                          *)
(* Iteration order.  self.candidates is a dict, iterated in insertion       *)
(* order: candidates is a sequence of names.  The sets self.votes and       *)
(* Candidate.votes are only iterated by loops whose result does not depend  *)
(* on the order (sums, and per-vote updates that read nothing the loop      *)
(* writes), so they are modelled as sets.                                   *)
(***************************************************************************)
EXTENDS Integers, Sequences, FiniteSets, TLC

\* ---------------------------------------------------------------- bounds
\* greatest number of ballots of an exhaustively enumerated input
MaxBallots == 3
\* greatest number of preference entries of all its ballots together
MaxMarks == 5
\* greatest number of vacancies
MaxVacancies == 2
\* greatest number of calls of get_winners after the constructor returned
MaxCalls == 2

NameStr == <<"A", "B", "C", "D", "E", "F", "G", "H", "I", "J">>
AllNames == {NameStr[i] : i \in 1..Len(NameStr)}

\* ------------------------------------------------------------- rationals
RECURSIVE GCD(_, _)
GCD(a, b) == IF b = 0 THEN a ELSE GCD(b, a % b)

Abs(n) == IF n < 0 THEN -n ELSE n

Norm(n, d) == LET g == GCD(Abs(n), Abs(d))
                  s == IF d < 0 THEN -1 ELSE 1
              IN  <<(s * n) \div g, (s * d) \div g>>

Rat(n) == <<n, 1>>
RAdd(a, b) == Norm(a[1] * b[2] + b[1] * a[2], a[2] * b[2])
\* faulty variant: the operands the other way round
RSub_Swapped(a, b) == Norm(b[1] * a[2] - a[1] * b[2], a[2] * b[2])
RSub(a, b) == Norm(a[1] * b[2] - b[1] * a[2], a[2] * b[2])
RMul(a, b) == Norm(a[1] * b[1], a[2] * b[2])
RDiv(a, b) == Norm(a[1] * b[2], a[2] * b[1])
RLt(a, b) == a[1] * b[2] < b[1] * a[2]
RLe(a, b) == a[1] * b[2] <= b[1] * a[2]
\* math.floor
Floor(a) == a[1] \div a[2]

\* ------------------------------------------------------------- sequences
Range(s) == {s[i] : i \in 1..Len(s)}

\* "x in list"
InList(x, s) == \E i \in 1..Len(s) : s[i] = x

\* list.remove(x): removes the first occurrence of x only
ListRemove(s, x) ==
    LET i == CHOOSE k \in 1..Len(s) : s[k] = x /\ \A j \in 1..(k - 1) : s[j] # x
    IN  SubSeq(s, 1, i - 1) \o SubSeq(s, i + 1, Len(s))

\* [x for x in s if x in keep]
FilterSeq(s, keep) == SelectSeq(s, LAMBDA x : x \in keep)

VARIABLES
    ballots,             \* the constructor's argument: ballot id -> list of names
    vacancies,           \* WrightSystem.vacancies
    candidates,          \* WrightSystem.candidates: names in the pool, dict order
    votes,               \* WrightSystem.votes: ids of the active Vote objects
    preference,          \* Vote.preference of every Vote object
    value,               \* Vote.value of every Vote object
    total_value,         \* Candidate.total_value of every Candidate object
    cand_votes,          \* Candidate.votes of every Candidate object
    total_votes,         \* WrightSystem.total_votes
    quota,               \* WrightSystem.quota (0 before the first distribution)
    provisional_winners, \* WrightSystem.provisional_winners
    round_nr,            \* elect's local round_nr
    pc,                  \* position of the script: "while", "distribute",
                         \*   "surplus" (inner while of elect), "done"
    winners,             \* what the script's call of get_winners produced
    last_op,             \* history: the engine operation that ran last
    ever_winner,         \* history: names that have been in provisional_winners
    excluded_names,      \* history: names removed by exclusion_of_candidates
    surplus_done         \* history: names whose surplus was distributed in
                         \*   the current round

vars == <<ballots, vacancies, candidates, votes, preference, value,
          total_value, cand_votes, total_votes, quota, provisional_winners,
          round_nr, pc, winners, last_op, ever_winner, excluded_names,
          surplus_done>>

\* -------------------------------------------------------------- inputs
\* Candidate names are opaque and candidates are kept in the order of their
\* first appearance, so the inputs are enumerated up to renaming: the first
\* name that appears is "A", the second "B", and so on.  A name may appear
\* several times on one ballot: the constructor accepts any list of names.
RECURSIVE MarkStrings(_)
MarkStrings(m) ==
    IF m = 0 THEN {<<>>}
    ELSE UNION {{Append(s, NameStr[k]) : k \in 1..(Cardinality(Range(s)) + 1)} :
                s \in MarkStrings(m - 1)}

\* the ways to cut the string s into n preference lists (empty ones included)
RECURSIVE Splits(_, _)
Splits(s, n) ==
    IF n = 0 THEN (IF s = <<>> THEN {<<>>} ELSE {})
    ELSE UNION {{<<SubSeq(s, 1, k)>> \o r :
                    r \in Splits(SubSeq(s, k + 1, Len(s)), n - 1)} :
                k \in 0..Len(s)}

BallotMaps ==
    UNION {Splits(s, n) : s \in UNION {MarkStrings(m) : m \in 0..MaxMarks},
                          n \in 0..MaxBallots}

\* WrightSystem.add_candidate over one preference list
RECURSIVE AddCandidates(_, _)
AddCandidates(cands, pref) ==
    IF pref = <<>> THEN cands
    ELSE IF InList(Head(pref), cands) THEN AddCandidates(cands, Tail(pref))
    ELSE AddCandidates(Append(cands, Head(pref)), Tail(pref))

\* the loop of WrightSystem.__init__ over ballots.items(), ids ascending
RECURSIVE InitCandidates(_, _)
InitCandidates(b, n) ==
    IF n = 0 THEN <<>> ELSE AddCandidates(InitCandidates(b, n - 1), b[n])

NoOp == [op |-> "init", cand |-> "", size_before |-> 0,
         tv_before |-> [c \in AllNames |-> Rat(0)], pw_before |-> <<>>]

Construct(v, b) ==
    /\ ballots = b
    /\ vacancies = v
    /\ candidates = InitCandidates(b, Len(b))
    /\ votes = DOMAIN b
    /\ preference = b
    /\ value = [i \in DOMAIN b |-> Rat(1)]
    /\ total_value = [c \in AllNames |-> Rat(0)]
    /\ cand_votes = [c \in AllNames |-> {}]
    /\ total_votes = Rat(0)
    /\ quota = Rat(0)
    /\ provisional_winners = <<>>
    /\ round_nr = 0
    /\ pc = "while"
    /\ winners = [called |-> FALSE, error |-> FALSE, result |-> <<>>, calls |-> 0]
    /\ last_op = NoOp
    /\ ever_winner = {}
    /\ excluded_names = {}
    /\ surplus_done = {}

Init == \E v \in 1..MaxVacancies : \E b \in BallotMaps : Construct(v, b)

\* ------------------------------------------------------ engine helpers
NoCandidate == "None"

\* sum of Vote.value over a set of votes
RECURSIVE SumValue(_, _)
SumValue(S, val) ==
    IF S = {} THEN Rat(0)
    ELSE LET v == CHOOSE x \in S : TRUE
         IN  RAdd(val[v], SumValue(S \ {v}, val))

\* sum of Candidate.total_value over a set of names
RECURSIVE SumTotal(_, _)
SumTotal(C, tv) ==
    IF C = {} THEN Rat(0)
    ELSE LET c == CHOOSE x \in C : TRUE
         IN  RAdd(tv[c], SumTotal(C \ {c}, tv))

\* faulty variant: every allocated vote counts 1.0, whatever its value
AllocTotal_WholeVotes(tv, S, dest, val) ==
    [c \in AllNames |-> RAdd(tv[c], Rat(Cardinality({v \in S : dest[v] = c})))]

\* Candidate.alloc_vote for every vote v of S, to the candidate dest[v]:
\* "self.total_value += vote.value"
AllocTotal(tv, S, dest, val) ==
    [c \in AllNames |-> RAdd(tv[c], SumValue({v \in S : dest[v] = c}, val))]

\* ... and "self.votes.add(vote)"
AllocVotes(cv, S, dest) ==
    [c \in AllNames |-> cv[c] \cup {v \in S : dest[v] = c}]

\* Vote.get_preference
get_preference(pref) == IF pref # <<>> THEN pref[1] ELSE NoCandidate

\* faulty variant: the entry after the first one, whoever that is
get_preference_excluding_Second(pref, excluding) ==
    IF Len(pref) >= 2 THEN pref[2] ELSE NoCandidate

\* Vote.get_preference_excluding
RECURSIVE get_preference_excluding(_, _)
get_preference_excluding(pref, excluding) ==
    IF pref = <<>> THEN NoCandidate
    ELSE IF ~InList(Head(pref), excluding) THEN Head(pref)
    ELSE get_preference_excluding(Tail(pref), excluding)

\* faulty variant: the quota without its "+1.0"
CalcQuota_NoPlusOne(tvotes, vac) == Rat(Floor(RDiv(tvotes, Rat(1 + vac))))

\* faulty variant: the divisor is the number of vacancies, not one more
CalcQuota_VacanciesOnly(tvotes, vac) == Rat(Floor(RDiv(tvotes, Rat(vac))) + 1)

\* "math.floor(self.total_votes/(1+self.vacancies))+1.0"
CalcQuota(tvotes, vac) == Rat(Floor(RDiv(tvotes, Rat(1 + vac))) + 1)

\* faulty variant: only a total_value above the quota counts
ProvisionalWinners_Above(cands, tv, q) ==
    SelectSeq(cands, LAMBDA c : RLt(q, tv[c]))

\* "[c for c in self.candidates.values() if c.total_value >= self.quota]"
ProvisionalWinners(cands, tv, q) ==
    SelectSeq(cands, LAMBDA c : RLe(q, tv[c]))

\* WrightSystem.check_all_vacancies_filled
check_all_vacancies_filled(cands, pw, vac) ==
    Len(cands) <= vac \/ Len(pw) >= vac

\* faulty variant: all() in the place of any()
check_if_candidates_surplus_All(cands, tv, q) ==
    \A i \in 1..Len(cands) : RLt(q, tv[cands[i]])

\* WrightSystem.check_if_candidates_surplus
check_if_candidates_surplus(cands, tv, q) ==
    \E i \in 1..Len(cands) : RLt(q, tv[cands[i]])

\* Candidate.__lt__(self, other)
CandidateLt(self, other, tv) == RLt(tv[other], tv[self])

\* Python's max(iterable): keeps the first item and replaces it by a later
\* item when "item > maxitem"; Candidate defines only __lt__, so that is
\* the reflected maxitem.__lt__(item).
RECURSIVE MaxFrom(_, _, _)
MaxFrom(maxitem, rest, tv) ==
    IF rest = <<>> THEN maxitem
    ELSE MaxFrom(IF CandidateLt(maxitem, Head(rest), tv) THEN Head(rest)
                 ELSE maxitem,
                 Tail(rest), tv)

\* "max(candidates_with_surplus)"
SurplusCandidate(cands, tv, q) ==
    LET candidates_with_surplus == SelectSeq(cands, LAMBDA c : RLt(q, tv[c]))
    IN  MaxFrom(Head(candidates_with_surplus), Tail(candidates_with_surplus), tv)

\* faulty variant: the candidates with the greatest total_value
MinimumVotes_Greatest(cands, tv) ==
    LET max_total_val ==
            CHOOSE m \in {tv[c] : c \in Range(cands)} :
                \A c \in Range(cands) : RLe(tv[c], m)
    IN  SelectSeq(cands, LAMBDA c : tv[c] = max_total_val)

\* faulty variant: no lot, only the first candidate at the minimum
MinimumVotes_First(cands, tv) ==
    LET min_total_val ==
            CHOOSE m \in {tv[c] : c \in Range(cands)} :
                \A c \in Range(cands) : RLe(m, tv[c])
    IN  <<SelectSeq(cands, LAMBDA c : tv[c] = min_total_val)[1]>>

\* "min(c.total_value for c in self.candidates.values())" and the list of
\* the candidates that have it
MinimumVotes(cands, tv) ==
    LET min_total_val ==
            CHOOSE m \in {tv[c] : c \in Range(cands)} :
                \A c \in Range(cands) : RLe(m, tv[c])
    IN  SelectSeq(cands, LAMBDA c : tv[c] = min_total_val)

\* "if excluded in vote.preference: vote.preference.remove(excluded)"
RemoveExcluded(pref, excluded) ==
    IF InList(excluded, pref) THEN ListRemove(pref, excluded) ELSE pref

\* faulty variant: the excluded candidate is not deleted from the pool
PoolWithout_NoDelete(cands, excluded) == cands

\* "del self.candidates[excluded.name]"
PoolWithout(cands, excluded) == SelectSeq(cands, LAMBDA c : c # excluded)

\* faulty variant: the total is left as the transfer loop left it
SourceTotalAfter_NoClamp(total_after_transfer, q) == total_after_transfer

\* "candidate.total_value = self.quota" at the end of the surplus transfer
SourceTotalAfter(total_after_transfer, q) == q

\* faulty variant: the provisional winners must outnumber the vacancies
get_winners_Strict(cands, pw, vac) ==
    IF Len(cands) <= vac THEN [error |-> FALSE, result |-> cands]
    ELSE IF Len(pw) > vac THEN [error |-> FALSE, result |-> pw]
    ELSE [error |-> TRUE, result |-> <<>>]

\* WrightSystem.get_winners: the list returned, or the exception raised
get_winners(cands, pw, vac) ==
    IF Len(cands) <= vac THEN [error |-> FALSE, result |-> cands]
    ELSE IF Len(pw) >= vac THEN [error |-> FALSE, result |-> pw]
    ELSE [error |-> TRUE, result |-> <<>>]

\* ------------------------------------------------------------- actions
\* elect: the test of "while not self.check_all_vacancies_filled()"
ElectLoop ==
    /\ pc = "while"
    /\ IF check_all_vacancies_filled(candidates, provisional_winners, vacancies)
       THEN pc' = "done" /\ round_nr' = round_nr
       ELSE pc' = "distribute" /\ round_nr' = round_nr + 1
    /\ UNCHANGED <<ballots, vacancies, candidates, votes, preference, value,
                   total_value, cand_votes, total_votes, quota,
                   provisional_winners, winners, last_op, ever_winner,
                   excluded_names, surplus_done>>

\* distribution_of_preferences, and elect's test after it
DistributionOfPreferences ==
    /\ pc = "distribute"
    /\ LET pool == Range(candidates)
           tv0 == [c \in AllNames |-> IF c \in pool THEN Rat(0) ELSE total_value[c]]
           cv0 == [c \in AllNames |-> IF c \in pool THEN {} ELSE cand_votes[c]]
           active == {v \in votes : preference[v] # <<>>}
           val == [v \in DOMAIN value |-> IF v \in active THEN Rat(1) ELSE value[v]]
           dest == [v \in active |-> get_preference(preference[v])]
           tv == AllocTotal(tv0, active, dest, val)
           tvotes == SumValue(active, val)
           q == CalcQuota(tvotes, vacancies)
           pw == ProvisionalWinners(candidates, tv, q)
       IN  /\ votes' = active
           /\ value' = val
           /\ total_value' = tv
           /\ cand_votes' = AllocVotes(cv0, active, dest)
           /\ total_votes' = tvotes
           /\ quota' = q
           /\ provisional_winners' = pw
           /\ ever_winner' = ever_winner \cup Range(pw)
           /\ pc' = IF check_all_vacancies_filled(candidates, pw, vacancies)
                    THEN "done" ELSE "surplus"
    /\ last_op' = [op |-> "distribution", cand |-> "",
                   size_before |-> Len(candidates),
                   tv_before |-> total_value,
                   pw_before |-> provisional_winners]
    /\ surplus_done' = {}
    /\ UNCHANGED <<ballots, vacancies, candidates, preference, round_nr,
                   winners, excluded_names>>

\* faulty variant: any candidate with a surplus may be the one whose surplus
\* is distributed
CalcAndDistributeSurplus_AnySurplus ==
    /\ pc = "surplus"
    /\ check_if_candidates_surplus(candidates, total_value, quota)
    /\ \E candidate \in {c \in Range(candidates) : RLt(quota, total_value[c])} :
       LET surplus == RSub(total_value[candidate], quota)
           surplus_transfer_value == RDiv(surplus, total_value[candidate])
           moved == cand_votes[candidate]
           val == [v \in DOMAIN value |->
                      IF v \in moved THEN RMul(value[v], surplus_transfer_value)
                      ELSE value[v]]
           excluding == provisional_winners
           next_preference ==
               [v \in moved |-> get_preference_excluding(preference[v], excluding)]
           tv1 == AllocTotal(total_value, moved, next_preference, val)
           tv == [tv1 EXCEPT ![candidate] = SourceTotalAfter(tv1[candidate], quota)]
           pw == ProvisionalWinners(candidates, tv, quota)
       IN  /\ value' = val
           /\ total_value' = tv
           /\ cand_votes' = AllocVotes(cand_votes, moved, next_preference)
           /\ provisional_winners' = pw
           /\ ever_winner' = ever_winner \cup Range(pw)
           /\ pc' = IF check_all_vacancies_filled(candidates, pw, vacancies)
                    THEN "done" ELSE "surplus"
           /\ last_op' = [op |-> "surplus", cand |-> candidate,
                          size_before |-> Len(candidates),
                          tv_before |-> total_value,
                          pw_before |-> provisional_winners]
           /\ surplus_done' = surplus_done \cup {candidate}
    /\ UNCHANGED <<ballots, vacancies, candidates, votes, preference,
                   total_votes, quota, round_nr, winners, excluded_names>>

\* one pass of "while self.check_if_candidates_surplus()":
\* calc_and_distribute_surplus, and elect's test after it
CalcAndDistributeSurplus ==
    /\ pc = "surplus"
    /\ check_if_candidates_surplus(candidates, total_value, quota)
    /\ LET candidate == SurplusCandidate(candidates, total_value, quota)
           surplus == RSub(total_value[candidate], quota)
           surplus_transfer_value == RDiv(surplus, total_value[candidate])
           moved == cand_votes[candidate]
           val == [v \in DOMAIN value |->
                      IF v \in moved THEN RMul(value[v], surplus_transfer_value)
                      ELSE value[v]]
           excluding == provisional_winners
           next_preference ==
               [v \in moved |-> get_preference_excluding(preference[v], excluding)]
           tv1 == AllocTotal(total_value, moved, next_preference, val)
           tv == [tv1 EXCEPT ![candidate] = SourceTotalAfter(tv1[candidate], quota)]
           pw == ProvisionalWinners(candidates, tv, quota)
       IN  /\ value' = val
           /\ total_value' = tv
           /\ cand_votes' = AllocVotes(cand_votes, moved, next_preference)
           /\ provisional_winners' = pw
           /\ ever_winner' = ever_winner \cup Range(pw)
           /\ pc' = IF check_all_vacancies_filled(candidates, pw, vacancies)
                    THEN "done" ELSE "surplus"
           /\ last_op' = [op |-> "surplus", cand |-> candidate,
                          size_before |-> Len(candidates),
                          tv_before |-> total_value,
                          pw_before |-> provisional_winners]
           /\ surplus_done' = surplus_done \cup {candidate}
    /\ UNCHANGED <<ballots, vacancies, candidates, votes, preference,
                   total_votes, quota, round_nr, winners, excluded_names>>

\* exclusion_of_candidates, reached when the surplus loop ends;
\* random.choice is the choice of excluded
ExclusionOfCandidates ==
    /\ pc = "surplus"
    /\ ~check_if_candidates_surplus(candidates, total_value, quota)
    /\ \E excluded \in Range(MinimumVotes(candidates, total_value)) :
          /\ preference' = [v \in DOMAIN preference |->
                               IF v \in votes
                               THEN RemoveExcluded(preference[v], excluded)
                               ELSE preference[v]]
          /\ candidates' = PoolWithout(candidates, excluded)
          /\ excluded_names' = excluded_names \cup {excluded}
          /\ last_op' = [op |-> "exclusion", cand |-> excluded,
                         size_before |-> Len(candidates),
                         tv_before |-> total_value,
                         pw_before |-> provisional_winners]
    /\ pc' = "while"
    /\ UNCHANGED <<ballots, vacancies, votes, value, total_value, cand_votes,
                   total_votes, quota, provisional_winners, round_nr, winners,
                   ever_winner, surplus_done>>

\* faulty variant: the call hands out the list of provisional winners itself
\* and leaves an empty one behind
GetWinners_Consuming ==
    /\ pc = "done"
    /\ winners.calls < MaxCalls
    /\ LET got == get_winners(candidates, provisional_winners, vacancies)
       IN  winners' = [called |-> TRUE, error |-> got.error, result |-> got.result,
                       calls |-> winners.calls + 1]
    /\ provisional_winners' = <<>>
    /\ UNCHANGED <<ballots, vacancies, candidates, votes, preference, value,
                   total_value, cand_votes, total_votes, quota,
                   round_nr, pc, last_op, ever_winner,
                   excluded_names, surplus_done>>

\* the script's "winners = ws.get_winners()" after the constructor returned,
\* and any further call of get_winners on the same object
GetWinners ==
    /\ pc = "done"
    /\ winners.calls < MaxCalls
    /\ LET got == get_winners(candidates, provisional_winners, vacancies)
       IN  winners' = [called |-> TRUE, error |-> got.error, result |-> got.result,
                       calls |-> winners.calls + 1]
    /\ UNCHANGED <<ballots, vacancies, candidates, votes, preference, value,
                   total_value, cand_votes, total_votes, quota,
                   provisional_winners, round_nr, pc, last_op, ever_winner,
                   excluded_names, surplus_done>>

Next ==
    \/ ElectLoop
    \/ DistributionOfPreferences
    \/ CalcAndDistributeSurplus
    \/ ExclusionOfCandidates
    \/ GetWinners

Spec == Init /\ [][Next]_vars

\* --------------------------------------------------------- larger polls
\* The script's own input, and polls of up to MaxPollBallots ballots whose
\* preference lists are taken from PollLists.
VACANCIES == 4
INITIAL_BALLOTS == <<
    <<"A", "B", "D", "C">>,
    <<"A", "C", "B", "D", "E">>,
    <<"C">>,
    <<"C", "A", "E">>,
    <<"C", "B", "A", "F", "E", "D", "G">>,
    <<"C", "B", "D", "E">>,
    <<"C", "F", "B", "D", "E", "H">>,
    <<"C", "D", "F", "E", "H", "A">>,
    <<"D", "E", "C">>,
    <<"E", "B", "D", "C", "A", "F">>,
    <<"E", "D", "C", "A">>,
    <<"F">>,
    <<"F", "C", "H">>,
    <<"F", "G", "E", "I", "H", "J">>,
    <<"F", "H", "G">>,
    <<"G", "F", "E", "I">>,
    <<"H", "F", "J", "A", "I">>,
    <<"H", "G", "I", "F">>,
    <<"I", "J", "F">>,
    <<"I", "J", "H">>,
    <<"J", "I", "H", "F", "E">> >>

MaxPollBallots == 6
MaxPollVacancies == 3
PollLists == {<<"A", "C">>, <<"B", "D">>, <<"A", "B", "C">>, <<"C", "C", "D">>}
PollMaps == UNION {[1..n -> PollLists] : n \in 1..MaxPollBallots}

\* Polls of blocks of equal ballots, in which several candidates have a
\* surplus in the same round.
Repeat(x, k) == [i \in 1..k |-> x]
TwoBlockPolls ==
    {Repeat(<<"A", "C">>, i) \o Repeat(<<"B", "D">>, j) : i, j \in 3..4}
ThreeBlockPolls ==
    {Repeat(<<"A", "B">>, i) \o Repeat(<<"C", "B", "D">>, j)
        \o <<<<"E", t>>, <<"F">>, <<"G">>>> : i, j \in 3..4, t \in {"A", "C"}}

\* A poll in which nobody reaches the quota and two candidates tie.
TieBallots == <<<<"A">>, <<"A">>, <<"B">>, <<"B">>, <<"C">>>>

InitPoll ==
    \/ \E v \in 1..MaxPollVacancies : \E b \in PollMaps : Construct(v, b)
    \/ \E v \in 3..5 : \E b \in TwoBlockPolls \cup ThreeBlockPolls : Construct(v, b)
    \/ \E v \in 1..2 : Construct(v, TieBallots)
    \/ Construct(VACANCIES, INITIAL_BALLOTS)

SpecPoll == InitPoll /\ [][Next]_vars

\* =============================================================== claims
InitialCandidates == InitCandidates(ballots, Len(ballots))
Pool == Range(candidates)
Terminal == check_all_vacancies_filled(candidates, provisional_winners, vacancies)
IsDistinct(s) == \A i, j \in 1..Len(s) : s[i] = s[j] => i = j

\* The steps the script can still take are bounded by StepsLeft: the
\* positions of one round count down from "while" to "surplus", a round
\* distributes the surplus of each candidate at most once, and a new round
\* starts with a smaller pool.
PcRank == CASE pc = "while" -> 3 [] pc = "distribute" -> 2
            [] pc = "surplus" -> 1 [] OTHER -> 0
StepsLeft ==
    Len(candidates) * (5 * (Len(NameStr) + 1))
    + PcRank * (Len(NameStr) + 1)
    + (Len(NameStr) - Cardinality(surplus_done))
    + (MaxCalls - winners.calls)

\* The next operation of elect does not raise: min() in
\* exclusion_of_candidates has a non-empty pool to look at, and the division
\* in calc_and_distribute_surplus has a divisor other than zero.
NotStuck ==
    pc = "surplus" =>
        IF check_if_candidates_surplus(candidates, total_value, quota)
        THEN total_value[SurplusCandidate(candidates, total_value, quota)] # Rat(0)
        ELSE candidates # <<>>

\* C1: with at least one candidate and vacancies >= 1, whatever the lot
\* draws, elect returns, in a state where check_all_vacancies_filled is true:
\* no operation raises before it has returned and every step it takes
\* lowers the natural number StepsLeft.  Every round that is run has a number
\* of at most |initial candidates| - vacancies + 1 (no round is run when that
\* is not positive), and after each round that did not end the election the
\* pool has lost exactly one candidate.
C1_RoundsBounded ==
    (Len(InitialCandidates) >= 1 /\ vacancies >= 1) =>
        /\ round_nr = 0 \/ round_nr <= Len(InitialCandidates) - vacancies + 1
        /\ pc = "done" => Terminal
        /\ NotStuck
        /\ pc = "while" => Len(candidates) = Len(InitialCandidates) - round_nr
        /\ StepsLeft >= 0
C1_Termination ==
    []C1_RoundsBounded /\ [][StepsLeft' < StepsLeft]_vars

\* a count of several rounds, each of which excluded one candidate, has returned
C1_Witness ==
    /\ pc = "done"
    /\ round_nr >= 2
    /\ Len(candidates) = Len(InitialCandidates) - round_nr

\* C2: when the ballots name at least `vacancies` candidates, get_winners in
\* a terminal state returns exactly `vacancies` distinct candidates of the pool.
C2_ExactlyVacanciesWinners ==
    (Len(InitialCandidates) >= vacancies /\ pc = "done") =>
        LET got == get_winners(candidates, provisional_winners, vacancies)
        IN  /\ ~got.error
            /\ Len(got.result) = vacancies
            /\ IsDistinct(got.result)
            /\ Range(got.result) \subseteq Pool
            /\ winners.called => winners.result = got.result

\* the winners are the provisional winners of a pool larger than `vacancies`
C2_Witness ==
    /\ winners.called
    /\ Len(candidates) > vacancies
    /\ Len(winners.result) = vacancies
    /\ vacancies >= 2

\* C3: the candidate whose surplus is distributed has, among the candidates
\* with total_value > quota at that moment, the greatest total_value.
C3_GreatestSurplusFirst ==
    last_op.op = "surplus" =>
        \A c \in Pool :
            RLt(quota, last_op.tv_before[c]) =>
                RLe(last_op.tv_before[c], last_op.tv_before[last_op.cand])

\* the engine operations that have run leave the state "between operations"
AfterOperation == last_op.op \in {"distribution", "surplus", "exclusion"}

\* C4 as stated: between engine operations every candidate of the pool has
\* total_value equal to the sum of the values of the votes in its votes set.
C4_TotalIsSumOfVotes ==
    AfterOperation =>
        \A c \in Pool : total_value[c] = SumValue(cand_votes[c], value)

\* C4 amended: between engine operations every candidate of the pool whose
\* surplus has not been distributed in the current round has total_value equal
\* to the sum of the values of the votes in its votes set, and every candidate
\* whose surplus has been distributed in the current round has total_value
\* equal to quota.
C4_TotalIsSumUnlessDistributed ==
    AfterOperation =>
        \A c \in Pool :
            IF c \in surplus_done
            THEN total_value[c] = quota
            ELSE total_value[c] = SumValue(cand_votes[c], value)

\* after a surplus transfer a candidate holds a transferred vote of reduced value
C4_Witness ==
    /\ last_op.op = "surplus"
    /\ \E c \in Pool \ surplus_done :
          \E v \in cand_votes[c] : value[v] # Rat(1)

\* C5: each exclusion_of_candidates makes the pool one candidate smaller, and
\* from then on no excluded candidate appears in the preference list of an
\* active vote.
C5_ExcludedLeavesEveryVote ==
    /\ last_op.op = "exclusion" => Len(candidates) = last_op.size_before - 1
    /\ \A e \in excluded_names : \A v \in votes : ~InList(e, preference[v])

\* C6: right after distribution_of_preferences the values of the active votes
\* sum to total_votes, and so do the total_value of the candidates of the pool.
C6_ValueConservation ==
    last_op.op = "distribution" =>
        /\ SumValue(votes, value) = total_votes
        /\ total_votes = SumTotal(Pool, total_value)

\* C7: from the end of a round's distribution_of_preferences until the next
\* one, quota = floor(total_votes / (vacancies + 1)) + 1, total_votes being the
\* number of votes whose preference list was not empty at that distribution.
C7_Quota ==
    AfterOperation =>
        /\ total_votes = Rat(Cardinality(votes))
        /\ quota = Rat((Cardinality(votes) \div (vacancies + 1)) + 1)
        /\ last_op.op = "distribution" =>
              votes = {v \in DOMAIN ballots : preference[v] # <<>>}

\* the quota of a round that dropped a ballot is still in force after its exclusion
C7_Witness ==
    /\ last_op.op = "exclusion"
    /\ Cardinality(votes) < Len(ballots)
    /\ quota = Rat((Cardinality(votes) \div (vacancies + 1)) + 1)

\* C8: right after calc_and_distribute_surplus the candidate whose surplus
\* was distributed has total_value = quota.
C8_SurplusClamp ==
    last_op.op = "surplus" => total_value[last_op.cand] = quota

\* the surplus of a candidate was distributed, one of whose votes had no
\* further preference
C8_Witness ==
    /\ last_op.op = "surplus"
    /\ total_value[last_op.cand] = quota
    /\ \E v \in cand_votes[last_op.cand] :
          get_preference_excluding(preference[v], last_op.pw_before) = NoCandidate

\* C9 as stated: a candidate that has been in provisional_winners, in this
\* round or an earlier one, is never removed from the pool by
\* exclusion_of_candidates.
C9_WinnerNeverExcluded == excluded_names \cap ever_winner = {}

\* C9 amended: the candidate that exclusion_of_candidates removes is not a
\* member of provisional_winners of the round in which it is removed.
C9_CurrentWinnerNotExcluded ==
    last_op.op = "exclusion" => ~InList(last_op.cand, last_op.pw_before)

\* exclusion has removed a candidate while the round had provisional winners,
\* the removed candidate having been one of them in an earlier round
C9_Witness ==
    /\ last_op.op = "exclusion"
    /\ last_op.pw_before # <<>>
    /\ last_op.cand \in ever_winner

\* C10: get_winners raises exactly when check_all_vacancies_filled is false,
\* and the call the script makes after the constructor does not raise.
C10_ErrorOnlyBeforeTerminal ==
    /\ get_winners(candidates, provisional_winners, vacancies).error <=> ~Terminal
    /\ pc = "done" => ~get_winners(candidates, provisional_winners, vacancies).error
    /\ winners.called => ~winners.error

\* get_winners returned after a count that went through states in which it
\* would have raised
C10_Witness ==
    /\ winners.called
    /\ ~winners.error
    /\ excluded_names # {}

\* C11: after the count has completed a call of get_winners changes nothing
\* of the election state (candidates, votes, preference lists, quota,
\* total_votes, provisional_winners, every total_value, votes set and vote
\* value), and every call after the first returns, without raising, the
\* list the call before it returned.
C11_GetWinnersReadOnly ==
    [][winners'.calls > winners.calls =>
          /\ UNCHANGED <<candidates, votes, preference, value, total_value,
                         cand_votes, total_votes, quota, provisional_winners>>
          /\ ~winners'.error
          /\ winners.called => winners'.result = winners.result]_vars

\* get_winners has been called twice after a count of several rounds and
\* returned the provisional winners of a pool larger than `vacancies`
C11_Witness ==
    /\ winners.calls >= 2
    /\ round_nr >= 2
    /\ Len(candidates) > vacancies
    /\ winners.result = provisional_winners

\* C12: for vacancies = 1 and the ballots 1:[A], 2:[A], 3:[B], 4:[B], 5:[C]:
\* round 1 has quota 3 and totals A = 2, B = 2, C = 1, no provisional winner
\* and no surplus; C is excluded, being alone at the minimum; round 2 drops
\* ballot 5, has quota 3 again and totals A = 2, B = 2; A or B is excluded by
\* lot; the count then ends after two rounds and the single winner is the
\* one of A and B that is left.
C12_TieExample ==
    (vacancies = 1 /\ ballots = TieBallots) =>
        /\ round_nr \in 0..2
        /\ provisional_winners = <<>>
        /\ (round_nr >= 1 /\ pc # "distribute") =>
              /\ quota = Rat(3)
              /\ total_value["A"] = Rat(2) /\ total_value["B"] = Rat(2)
              /\ ~check_if_candidates_surplus(candidates, total_value, quota)
        /\ (round_nr = 1 /\ pc # "distribute") =>
              /\ votes = 1..5 /\ total_votes = Rat(5)
              /\ total_value["C"] = Rat(1)
        /\ (round_nr = 2 /\ pc # "distribute") =>
              /\ votes = 1..4 /\ total_votes = Rat(4)
        /\ Len(candidates) = 3 => candidates = <<"A", "B", "C">> /\ round_nr <= 1
        /\ Len(candidates) = 2 =>
              /\ candidates = <<"A", "B">> /\ excluded_names = {"C"}
              /\ MinimumVotes(<<"A", "B", "C">>, total_value) = <<"C">>
              /\ pc # "done"
        /\ Len(candidates) = 1 =>
              /\ round_nr = 2 /\ last_op.op = "exclusion"
              /\ MinimumVotes(<<"A", "B">>, last_op.tv_before) = <<"A", "B">>
              /\ \/ candidates = <<"A">> /\ excluded_names = {"C", "B"}
                 \/ candidates = <<"B">> /\ excluded_names = {"C", "A"}
        /\ Len(candidates) \in 1..3
        /\ pc = "done" => Len(candidates) = 1
        /\ winners.called => ~winners.error /\ winners.result = candidates

\* the count of this poll has ended with B the winner, the lot having excluded A
C12_Witness ==
    /\ vacancies = 1 /\ ballots = TieBallots
    /\ winners.called
    /\ winners.result = <<"B">>
    /\ excluded_names = {"C", "A"}
    /\ round_nr = 2

\* The state that the next step of the script produces, as a function of
\* the present state and of the candidate `lot` that random.choice returns
\* (read only by exclusion_of_candidates).
AfterElectLoop ==
    LET filled == check_all_vacancies_filled(candidates, provisional_winners, vacancies)
    IN  <<ballots, vacancies, candidates, votes, preference, value,
          total_value, cand_votes, total_votes, quota, provisional_winners,
          IF filled THEN round_nr ELSE round_nr + 1,
          IF filled THEN "done" ELSE "distribute",
          winners, last_op, ever_winner, excluded_names, surplus_done>>

AfterDistribution ==
    LET active == {v \in votes : preference[v] # <<>>}
        val == [v \in DOMAIN value |-> IF v \in active THEN Rat(1) ELSE value[v]]
        first == [c \in AllNames |-> {v \in active : preference[v][1] = c}]
        tv == [c \in AllNames |->
                  IF c \in Pool \/ first[c] # {}
                  THEN RAdd(IF c \in Pool THEN Rat(0) ELSE total_value[c],
                            Rat(Cardinality(first[c])))
                  ELSE total_value[c]]
        cv == [c \in AllNames |->
                  (IF c \in Pool THEN {} ELSE cand_votes[c]) \cup first[c]]
        tvotes == Rat(Cardinality(active))
        q == Rat((Cardinality(active) \div (1 + vacancies)) + 1)
        pw == SelectSeq(candidates, LAMBDA c : RLe(q, tv[c]))
    IN  <<ballots, vacancies, candidates, active, preference, val,
          tv, cv, tvotes, q, pw, round_nr,
          IF Len(candidates) <= vacancies \/ Len(pw) >= vacancies
          THEN "done" ELSE "surplus",
          winners,
          [op |-> "distribution", cand |-> "", size_before |-> Len(candidates),
           tv_before |-> total_value, pw_before |-> provisional_winners],
          ever_winner \cup Range(pw), excluded_names, {}>>

AfterSurplus ==
    LET candidate == SurplusCandidate(candidates, total_value, quota)
        stv == RDiv(RSub(total_value[candidate], quota), total_value[candidate])
        moved == cand_votes[candidate]
        val == [v \in DOMAIN value |->
                   IF v \in moved THEN RMul(value[v], stv) ELSE value[v]]
        goes == [c \in AllNames |->
                    {v \in moved :
                        get_preference_excluding(preference[v], provisional_winners) = c}]
        tv == [c \in AllNames |->
                  IF c = candidate THEN quota
                  ELSE RAdd(total_value[c], SumValue(goes[c], val))]
        cv == [c \in AllNames |-> cand_votes[c] \cup goes[c]]
        pw == SelectSeq(candidates, LAMBDA c : RLe(quota, tv[c]))
    IN  <<ballots, vacancies, candidates, votes, preference, val,
          tv, cv, total_votes, quota, pw, round_nr,
          IF Len(candidates) <= vacancies \/ Len(pw) >= vacancies
          THEN "done" ELSE "surplus",
          winners,
          [op |-> "surplus", cand |-> candidate, size_before |-> Len(candidates),
           tv_before |-> total_value, pw_before |-> provisional_winners],
          ever_winner \cup Range(pw), excluded_names,
          surplus_done \cup {candidate}>>

AfterExclusion(lot) ==
    <<ballots, vacancies, SelectSeq(candidates, LAMBDA c : c # lot), votes,
      [v \in DOMAIN preference |->
          IF v \in votes THEN RemoveExcluded(preference[v], lot)
          ELSE preference[v]],
      value, total_value, cand_votes, total_votes, quota, provisional_winners,
      round_nr, "while", winners,
      [op |-> "exclusion", cand |-> lot, size_before |-> Len(candidates),
       tv_before |-> total_value, pw_before |-> provisional_winners],
      ever_winner, excluded_names \cup {lot}, surplus_done>>

AfterGetWinners ==
    LET got == get_winners(candidates, provisional_winners, vacancies)
    IN  <<ballots, vacancies, candidates, votes, preference, value,
          total_value, cand_votes, total_votes, quota, provisional_winners,
          round_nr, pc,
          [called |-> TRUE, error |-> got.error, result |-> got.result,
           calls |-> winners.calls + 1],
          last_op, ever_winner, excluded_names, surplus_done>>

LotDrawn ==
    pc = "surplus" /\ ~check_if_candidates_surplus(candidates, total_value, quota)

NextState(lot) ==
    CASE pc = "while" -> AfterElectLoop
      [] pc = "distribute" -> AfterDistribution
      [] pc = "surplus" /\ ~LotDrawn -> AfterSurplus
      [] LotDrawn -> AfterExclusion(lot)
      [] OTHER -> AfterGetWinners

C14_ValueInUnitInterval ==
    /\ \A v \in votes : RLt(Rat(0), value[v]) /\ RLe(value[v], Rat(1))
    /\ last_op.op = "distribution" => \A v \in votes : value[v] = Rat(1)
C14_ValueNeverIncreases ==
    /\ []C14_ValueInUnitInterval
    /\ [][/\ pc # "distribute" =>
                \A v \in votes : v \in votes' /\ RLe(value'[v], value[v])
          /\ last_op'.op = "surplus" /\ last_op' # last_op =>
                LET source == last_op'.cand
                    ratio == RDiv(RSub(total_value[source], quota),
                                  total_value[source])
                IN  /\ RLt(Rat(0), ratio) /\ RLt(ratio, Rat(1))
                    /\ \A v \in votes :
                          value'[v] = IF v \in cand_votes[source]
                                      THEN RMul(value[v], ratio)
                                      ELSE value[v]]_vars

\* a vote has taken part in two surplus transfers of one round and keeps its
\* twice reduced value through the exclusion of that round
C14_Witness ==
    /\ last_op.op = "exclusion"
    /\ \E v \in votes :
          /\ RLt(Rat(0), value[v]) /\ RLt(value[v], Rat(1))
          /\ Cardinality({c \in surplus_done : v \in cand_votes[c]}) >= 2

\* C15: exclusion_of_candidates runs at most once per round (the exclusions
\* made are as many as the rounds finished), after that round's distribution,
\* and only in a state where no candidate of the pool has total_value >
\* quota, fewer than `vacancies` candidates are provisional winners and the
\* pool holds more than `vacancies` candidates; the operation that follows
\* an exclusion, if any, is the next round's distribution.
C15_ExclusionsMatchRounds ==
    /\ Cardinality(excluded_names) <= round_nr
    /\ pc \in {"distribute", "surplus"} => Cardinality(excluded_names) = round_nr - 1
    /\ pc = "while" => Cardinality(excluded_names) = round_nr
C15_ExclusionOncePerRound ==
    /\ []C15_ExclusionsMatchRounds
    /\ [][/\ candidates' # candidates =>
                /\ last_op'.op = "exclusion"
                /\ last_op.op \in {"distribution", "surplus"}
                /\ pc = "surplus" /\ pc' = "while"
                /\ \A c \in Pool : RLe(total_value[c], quota)
                /\ Len(provisional_winners) < vacancies
                /\ Cardinality({c \in Pool : RLe(quota, total_value[c])}) < vacancies
                /\ Len(candidates) > vacancies
                /\ Len(candidates') = Len(candidates) - 1
                /\ round_nr' = round_nr
          /\ last_op'.op = "exclusion" /\ last_op' # last_op =>
                candidates' # candidates
          /\ last_op.op = "exclusion" /\ last_op' # last_op =>
                /\ last_op'.op = "distribution"
                /\ round_nr = Cardinality(excluded_names) + 1
                /\ pc = "distribute"]_vars

\* the exclusion of a second or later round has run after that round's
\* surplus loop distributed a surplus
C15_Witness ==
    /\ last_op.op = "exclusion"
    /\ round_nr >= 2
    /\ surplus_done # {}
    /\ Cardinality(excluded_names) = round_nr

\* C16: the candidate that exclusion_of_candidates removed had, at that
\* moment, a total_value no greater than that of any candidate of the pool;
\* and whenever exclusion_of_candidates is the next operation, the candidates
\* it can remove are exactly the candidates of the pool whose total_value no
\* other candidate of the pool undercuts: each of them is a possible outcome
\* of the lot, and no candidate with a greater total_value is.
C16_ExcludedIsMinimum ==
    /\ last_op.op = "exclusion" =>
          \A c \in Pool \cup {last_op.cand} :
              RLe(last_op.tv_before[last_op.cand], last_op.tv_before[c])
    /\ LotDrawn =>
          \A c \in Pool :
              (ENABLED (ExclusionOfCandidates /\ last_op'.cand = c))
                  <=> (\A d \in Pool : RLe(total_value[c], total_value[d]))

\* the lot has removed a candidate that is not the first of those tied at
\* the minimum, other candidates having a greater total_value
C16_Witness ==
    /\ last_op.op = "exclusion"
    /\ \E c \in Pool : RLt(last_op.tv_before[last_op.cand], last_op.tv_before[c])
    /\ LET tied == MinimumVotes(FilterSeq(InitialCandidates, Pool \cup {last_op.cand}),
                                last_op.tv_before)
       IN  Len(tied) >= 2 /\ tied[1] # last_op.cand

\* C17: from the first distribution on, between engine operations,
\* provisional_winners holds, once each, exactly the candidates of the pool
\* whose total_value >= quota.
C17_WinnersAreThoseAtQuota ==
    AfterOperation =>
        /\ Range(provisional_winners) = {c \in Pool : RLe(quota, total_value[c])}
        /\ IsDistinct(provisional_winners)

\* an exclusion, which does not recompute provisional_winners, has run in a
\* round that had a provisional winner at exactly the quota
C17_Witness ==
    /\ last_op.op = "exclusion"
    /\ \E i \in 1..Len(provisional_winners) :
          total_value[provisional_winners[i]] = quota
    /\ Len(last_op.pw_before) = Len(provisional_winners)

\* The votes that the surplus transfer which ran last handed to candidate c:
\* the votes of the source whose first preference outside the list
\* provisional_winners, as it stood when the transfer began, is c.
Listed == Range(last_op.pw_before)
FirstFree(v) ==
    {i \in 1..Len(preference[v]) :
        /\ preference[v][i] \notin Listed
        /\ \A j \in 1..(i - 1) : preference[v][j] \in Listed}
TransferredTo(c) ==
    {v \in cand_votes[last_op.cand] : \E i \in FirstFree(v) : preference[v][i] = c}

\* C18 as stated: no vote of a surplus transfer is allocated to a candidate
\* whose total_value is at or above the quota at the moment of the
\* allocation.  The votes of one transfer are allocated one after the other
\* in the iteration order of a set; whichever of the votes handed to c came
\* last, c had its present total_value less the value of that vote before
\* it, so one of these differences has to be below the quota.
C18_NoVoteToCandidateAtQuota ==
    last_op.op = "surplus" =>
        \A c \in AllNames \ {last_op.cand} :
            TransferredTo(c) # {} =>
                \E v \in TransferredTo(c) :
                    RLt(RSub(total_value[c], value[v]), quota)

\* C18 amended: no vote of a surplus transfer is allocated to a candidate
\* that is in the list provisional_winners as it stood when the transfer
\* began (the source is in it): each vote of the source goes, at its new
\* value, to its first preference outside that list, which in the pool is a
\* candidate that was below the quota when the transfer began, and a vote
\* with no such preference goes to nobody.
C18_NoVoteToListedWinner ==
    last_op.op = "surplus" =>
        /\ last_op.cand \in Listed
        /\ \A c \in AllNames \ {last_op.cand} :
              /\ total_value[c] =
                     RAdd(last_op.tv_before[c], SumValue(TransferredTo(c), value))
              /\ TransferredTo(c) \subseteq cand_votes[c]
              /\ c \in Listed =>
                     TransferredTo(c) = {} /\ total_value[c] = last_op.tv_before[c]
              /\ (TransferredTo(c) # {} /\ c \in Pool) =>
                     RLt(last_op.tv_before[c], quota)

\* a surplus transfer has moved a vote past a listed provisional winner to a
\* later preference, and has set aside another vote
C18_Witness ==
    /\ last_op.op = "surplus"
    /\ \E v \in cand_votes[last_op.cand] :
          /\ Len(preference[v]) >= 3
          /\ preference[v][1] = last_op.cand
          /\ preference[v][2] \in Listed \ {last_op.cand}
          /\ v \in TransferredTo(preference[v][3])
    /\ \E v \in cand_votes[last_op.cand] : FirstFree(v) = {}

\* C19: between the operations of a round the total_value of the candidates
\* of the pool sum to at most total_votes, and the provisional winners (the
\* list, and the candidates of the pool at or above the quota) are at most
\* `vacancies`.
C19_NoValueCreated ==
    AfterOperation =>
        /\ RLe(SumTotal(Pool, total_value), total_votes)
        /\ Len(provisional_winners) <= vacancies
        /\ Cardinality({c \in Pool : RLe(quota, total_value[c])}) <= vacancies

\* a surplus transfer that set value aside has brought a further candidate
\* to the quota, the second provisional winner or a later one
C19_Witness ==
    /\ last_op.op = "surplus"
    /\ RLt(SumTotal(Pool, total_value), total_votes)
    /\ Len(provisional_winners) >= 2
    /\ Len(provisional_winners) > Len(last_op.pw_before)

\* C20: within one round the surplus of a candidate is distributed at most
\* once.  A candidate whose surplus has been distributed stays in the pool
\* with total_value = quota until the next distribution_of_preferences: no
\* later transfer of the round changes its total_value, the candidate of a
\* surplus distribution is never one whose surplus has been distributed
\* already in the round, and so the surplus distributions of a round are at
\* most as many as the candidates of the pool.
C20_DistributedStayAtQuota ==
    /\ surplus_done \subseteq Pool
    /\ Cardinality(surplus_done) <= Len(candidates)
    /\ \A c \in surplus_done :
          total_value[c] = quota /\ InList(c, provisional_winners)
C20_SurplusOncePerRound ==
    /\ []C20_DistributedStayAtQuota
    /\ [][/\ (last_op'.op = "surplus" /\ last_op' # last_op) =>
                /\ last_op'.cand \notin surplus_done
                /\ surplus_done' = surplus_done \cup {last_op'.cand}
                /\ RLt(quota, total_value[last_op'.cand])
                /\ \A c \in surplus_done : total_value'[c] = total_value[c]
          /\ (last_op'.op # "distribution" \/ last_op' = last_op) =>
                surplus_done \subseteq surplus_done'
          /\ surplus_done' # surplus_done =>
                last_op' # last_op /\ last_op'.op \in {"surplus", "distribution"}]_vars

\* the surplus of two candidates has been distributed in one round, the
\* later transfer moving a vote past the candidate of the earlier one, and
\* the round has gone on to its exclusion
C20_Witness ==
    /\ last_op.op = "exclusion"
    /\ Cardinality(surplus_done) >= 2
    /\ \E c \in surplus_done : \E d \in surplus_done \ {c} :
          \E v \in cand_votes[c] \cap cand_votes[d] :
              \E i \in 1..Len(preference[v]) : \E j \in 1..(i - 1) :
                  preference[v][j] = c /\ preference[v][i] = d
                      /\ i < Len(preference[v])

====
